---- MODULE Spec2Model ----
(***************************************************************************)
(* RINEX observation decoder (pkg/rinex/obs.go): header parser, epoch      *)
(* decoder, two-stream synchronizer.                                       *)
(*                                                                         *)
(* Text is modelled column-exact: a line is a sequence of one-character    *)
(* strings, so that every Go slice expression line[a:b] is SubSeq(line,    *)
(* a+1, b) and every length test is a test on Len(line).                   *)
(***************************************************************************)
EXTENDS Integers, Sequences, FiniteSets, TLC

VARIABLES
    dec1,     \* the primary ObsDecoder (receiver of NextEpoch / sync)
    dec2,     \* the secondary ObsDecoder (argument of sync)
    crashed,  \* TRUE once a call has panicked (the Go program is dead)
    hist      \* one record per completed call, oldest first

vars == <<dec1, dec2, crashed, hist>>

(***************************************************************************)
(* Bounds of the model.                                                    *)
(***************************************************************************)
MaxLines == 3    \* body lines after the header, single-decoder model
MaxEpochs == 2   \* epoch blocks per stream, synchronizer model
MaxTime == 2     \* distinct timestamps (seconds 1..MaxTime), synchronizer model
MaxAscTime == 3  \* distinct timestamps, synchronizer model over ascending streams
MaxTok == 3      \* observation types in a SYS / # / OBS TYPES record
MaxTail == 2     \* lines after the leading lines, header-length model
MaxSats == 2     \* satellite lines of an epoch, diff model

(***************************************************************************)
(* Go string helpers (strings.TrimSpace, strings.Fields, strings.HasPrefix,*)
(* strconv.Atoi, strconv.ParseFloat) on sequences of characters.           *)
(***************************************************************************)
Digits == <<"0", "1", "2", "3", "4", "5", "6", "7", "8", "9">>

IsDigit(c) == \E d \in 1..10 : Digits[d] = c

DigitVal(c) == (CHOOSE d \in 1..10 : Digits[d] = c) - 1

SetMin(S) == CHOOSE x \in S : \A y \in S : x <= y

SetMax(S) == CHOOSE x \in S : \A y \in S : x >= y

\* Go s[a:b] (0-indexed, end-exclusive); the caller checks 0 <= a <= b <= len(s).
Slice(s, a, b) == SubSeq(s, a + 1, b)

\* Go s[a:]
SliceFrom(s, a) == SubSeq(s, a + 1, Len(s))

TrimSpace(s) ==
    LET idx == {i \in 1..Len(s) : s[i] # " "}
    IN  IF idx = {} THEN <<>> ELSE SubSeq(s, SetMin(idx), SetMax(idx))

RECURSIVE Fields(_)
Fields(s) ==
    IF s = <<>> THEN <<>>
    ELSE IF Head(s) = " " THEN Fields(Tail(s))
    ELSE LET blanks == {i \in 1..Len(s) : s[i] = " "}
             n == IF blanks = {} THEN Len(s) + 1 ELSE SetMin(blanks)
         IN  <<SubSeq(s, 1, n - 1)>> \o Fields(SubSeq(s, n, Len(s)))

HasPrefix(s, p) == Len(s) >= Len(p) /\ SubSeq(s, 1, Len(p)) = p

RECURSIVE DigitsVal(_)
DigitsVal(s) ==
    IF s = <<>> THEN 0
    ELSE 10 * DigitsVal(SubSeq(s, 1, Len(s) - 1)) + DigitVal(s[Len(s)])

AllDigits(s) == \A i \in 1..Len(s) : IsDigit(s[i])

\* strconv.Atoi: optional sign, then one or more decimal digits, nothing else.
Atoi(s) ==
    LET signed == s # <<>> /\ s[1] \in {"+", "-"}
        body == IF signed THEN Tail(s) ELSE s
    IN  IF body = <<>> \/ ~AllDigits(body)
        THEN [ok |-> FALSE, val |-> 0]
        ELSE [ok |-> TRUE,
              val |-> IF signed /\ s[1] = "-" THEN 0 - DigitsVal(body) ELSE DigitsVal(body)]

\* strconv.ParseFloat on the decimal notation of the F14.3 fields: optional
\* sign, digits, optional point and digits, at least one digit.  The value is
\* kept in thousandths (three decimals, the precision of the format).
ParseFloat(s) ==
    LET signed == s # <<>> /\ s[1] \in {"+", "-"}
        body == IF signed THEN Tail(s) ELSE s
        dots == {i \in 1..Len(body) : body[i] = "."}
        p == IF dots = {} THEN Len(body) + 1 ELSE SetMin(dots)
        ip == SubSeq(body, 1, p - 1)
        fp == SubSeq(body, p + 1, Len(body))
        fp3 == SubSeq(fp \o <<"0", "0", "0">>, 1, 3)
        ok == /\ Cardinality(dots) <= 1
              /\ AllDigits(ip) /\ AllDigits(fp)
              /\ Len(ip) + Len(fp) >= 1
        mag == DigitsVal(ip) * 1000 + DigitsVal(fp3)
    IN  IF ~ok THEN [ok |-> FALSE, val |-> 0]
        ELSE [ok |-> TRUE, val |-> IF signed /\ s[1] = "-" THEN 0 - mag ELSE mag]

\* parseFlag: a single blank is 0, anything else goes through Atoi.
parseFlag(str) ==
    IF str = <<" ">> THEN [ok |-> TRUE, val |-> 0] ELSE Atoi(str)

(***************************************************************************)
(* The system table (package-level sysPerAbbr) and PRNs.                   *)
(***************************************************************************)
sysPerAbbr ==
    [c \in {"G", "R", "E", "J", "C", "I", "S", "M"} |->
        CASE c = "G" -> "GPS"
          [] c = "R" -> "GLONASS"
          [] c = "E" -> "Galileo"
          [] c = "J" -> "QZSS"
          [] c = "C" -> "BeiDou"
          [] c = "I" -> "IRNSS"
          [] c = "S" -> "SBAS"
          [] c = "M" -> "Mixed"]

Systems == {sysPerAbbr[c] : c \in DOMAIN sysPerAbbr}

\* map lookup `sys, ok := sysPerAbbr[key]` for a key of zero or one character
SysLookup(key) ==
    IF Len(key) = 1 /\ key[1] \in DOMAIN sysPerAbbr
    THEN [ok |-> TRUE, sys |-> sysPerAbbr[key[1]]]
    ELSE [ok |-> FALSE, sys |-> ""]

\* newPRN without the upper limit of the number (mutation of newPRN)
newPRN_NoUpper(sys, num) ==
    IF num < 1
    THEN [ok |-> FALSE, prn |-> [Sys |-> "", Num |-> 0]]
    ELSE [ok |-> TRUE, prn |-> [Sys |-> sys, Num |-> num]]

newPRN(sys, num) ==
    IF num < 1 \/ num > 60
    THEN [ok |-> FALSE, prn |-> [Sys |-> "", Num |-> 0]]
    ELSE [ok |-> TRUE, prn |-> [Sys |-> sys, Num |-> num]]

(***************************************************************************)
(* Errors.  nil is NoErr; every other error is a record of its message and *)
(* the line number it reports (0 when the message carries none).           *)
(***************************************************************************)
NoErr == [msg |-> "", line |-> 0, cause |-> ""]

Errorf(msg, line) == [msg |-> msg, line |-> line, cause |-> ""]


\* io.EOF, the one error value Err() hides
EOF == Errorf("EOF", 0)

\* the error of the underlying reader, as bufio.Scanner.Err() reports it
ReadErr == Errorf("read error", 0)

(***************************************************************************)
(* Time stamps.  epochTimeFormat is year, month, day, hour, minute and     *)
(* seconds with seven decimals in fixed columns; a time is the tuple of    *)
(* these seven numbers, compared as time.Time.Equal / time.Time.After do.  *)
(***************************************************************************)
ZeroTime == <<1, 1, 1, 0, 0, 0, 0>>

TimeEqual(t, u) == t = u

RECURSIVE LexGreater(_, _)
LexGreater(t, u) ==
    IF t = <<>> \/ u = <<>> THEN FALSE
    ELSE IF Head(t) # Head(u) THEN Head(t) > Head(u)
    ELSE LexGreater(Tail(t), Tail(u))

\* t.After(u)
TimeAfter(t, u) == LexGreater(t, u)

\* an unsigned number
NumOf(f) ==
    IF f = <<>> \/ ~AllDigits(f) THEN [ok |-> FALSE, val |-> 0]
    ELSE [ok |-> TRUE, val |-> DigitsVal(f)]

\* one blank-padded unsigned number in columns [a,b) of the time field
TimeNum(s, a, b) == NumOf(TrimSpace(Slice(s, a, b)))

\* the time of the seven numbers of the field s, when they are numbers in the
\* ranges of a date and a time of day and the separators are in place
TimeOf(s, y, mo, d, h, mi, sec, fr) ==
    IF /\ y.ok /\ mo.ok /\ d.ok /\ h.ok /\ mi.ok /\ sec.ok /\ fr.ok
       /\ \A i \in {5, 8, 11, 14, 17} : s[i] = " "
       /\ s[20] = "."
       /\ AllDigits(Slice(s, 0, 4)) /\ AllDigits(Slice(s, 20, 27))
       /\ mo.val \in 1..12 /\ d.val \in 1..31
       /\ h.val \in 0..23 /\ mi.val \in 0..59 /\ sec.val \in 0..59
    THEN [ok |-> TRUE, t |-> <<y.val, mo.val, d.val, h.val, mi.val, sec.val, fr.val>>]
    ELSE [ok |-> FALSE, t |-> ZeroTime]

\* time.Parse(epochTimeFormat, s) for the 27-column field "yyyy mm dd hh mm ss.fffffff"
ParseTime(s) ==
    IF Len(s) # 27 THEN [ok |-> FALSE, t |-> ZeroTime]
    ELSE TimeOf(s, TimeNum(s, 0, 4), TimeNum(s, 5, 7), TimeNum(s, 8, 10),
                TimeNum(s, 11, 13), TimeNum(s, 14, 16), TimeNum(s, 17, 19),
                TimeNum(s, 20, 27))

(***************************************************************************)
(* Data: Obs, SatObs, Epoch, ObsHeader, ObsDecoder.                        *)
(***************************************************************************)
\* map[string]Obs as a function; MapPut is the assignment m[k] = v
MapPut(m, k, v) == [x \in (DOMAIN m) \cup {k} |-> IF x = k THEN v ELSE m[x]]

EmptyMap == [x \in {} |-> 0]

\* the nil *Epoch
NilEpoch == [nil |-> TRUE, Time |-> ZeroTime, Flag |-> 0, NumSat |-> 0, ObsList |-> <<>>]

\* the zero ObsHeader with the ObsTypes map made (a missing key reads as the
\* nil slice, which is the empty sequence here)
EmptyHeader ==
    [RINEXVersion |-> 0, SatSystem |-> "", ObsTypes |-> [s \in Systems |-> <<>>],
     TimeOfFirstObs |-> ZeroTime, TimeOfLastObs |-> ZeroTime,
     LeapSeconds |-> 0, NSatellites |-> 0, labels |-> <<>>]

\* &ObsDecoder{sc: bufio.NewScanner(r)}: `in` is the reader's content (its lines
\* and whether reading fails after the last of them), pos the number of lines
\* the scanner has delivered, eof whether Scan has returned false.
ObsDecoder(r) ==
    [in |-> r, pos |-> 0, eof |-> FALSE, lineNum |-> 0,
     Header |-> EmptyHeader, epo |-> NilEpoch, syncEpo |-> NilEpoch, err |-> NoErr]

\* bufio.Scanner.Err(): non-nil once a Scan has failed on a read error
scErr(d) == IF d.eof /\ d.in.fail THEN ReadErr ELSE NoErr

CanScan(d) == d.pos < Len(d.in.lines)

\* the token of the Scan about to succeed
NextLine(d) == d.in.lines[d.pos + 1]

Err(d) == IF d.err = EOF THEN NoErr ELSE d.err

\* setErr that stores every error (mutation of setErr)
setErr_Overwrite(d, err) == [d EXCEPT !.err = err]

setErr(d, err) ==
    IF d.err = NoErr \/ d.err = EOF THEN [d EXCEPT !.err = err] ELSE d

Epoch(d) == d.epo

SyncEpoch(d) == [Epo1 |-> d.epo, Epo2 |-> d.syncEpo]

(***************************************************************************)
(* readHeader and NewObsDecoder.                                           *)
(***************************************************************************)
maxLines == 800

L_RinexVersion ==
    <<"R", "I", "N", "E", "X", " ", "V", "E", "R", "S", "I", "O", "N", " ", "/", " ", "T", "Y", "P", "E">>

L_Comment ==
    <<"C", "O", "M", "M", "E", "N", "T">>

L_ApproxPos ==
    <<"A", "P", "P", "R", "O", "X", " ", "P", "O", "S", "I", "T", "I", "O", "N", " ", "X", "Y", "Z">>

L_AntDelta ==
    <<"A", "N", "T", "E", "N", "N", "A", ":", " ", "D", "E", "L", "T", "A", " ", "H", "/", "E", "/", "N">>

L_SysObsTypes ==
    <<"S", "Y", "S", " ", "/", " ", "#", " ", "/", " ", "O", "B", "S", " ", "T", "Y", "P", "E", "S">>

L_TimeOfFirstObs ==
    <<"T", "I", "M", "E", " ", "O", "F", " ", "F", "I", "R", "S", "T", " ", "O", "B", "S">>

L_TimeOfLastObs ==
    <<"T", "I", "M", "E", " ", "O", "F", " ", "L", "A", "S", "T", " ", "O", "B", "S">>

L_LeapSeconds ==
    <<"L", "E", "A", "P", " ", "S", "E", "C", "O", "N", "D", "S">>

L_NumSatellites ==
    <<"#", " ", "O", "F", " ", "S", "A", "T", "E", "L", "L", "I", "T", "E", "S">>

L_EndOfHeader ==
    <<"E", "N", "D", " ", "O", "F", " ", "H", "E", "A", "D", "E", "R">>

\* case "SYS / # / OBS TYPES", the list update: a non-blank count field starts
\* the system's list anew, a blank one continues it
\* (mutation of sysObsTypes: every line starts the list anew)
sysObsTypes_Replace(types, val) == Fields(SliceFrom(val, 7))

sysObsTypes(types, val) ==
    IF TrimSpace(Slice(val, 3, 6)) # <<>>
    THEN Fields(SliceFrom(val, 7))
    ELSE types \o Fields(SliceFrom(val, 7))

\* the system a SYS / # / OBS TYPES line names: its own code, or the remembered one
sysCode(val, rememberMe) ==
    IF Slice(val, 0, 1) = <<" ">> THEN rememberMe ELSE Slice(val, 0, 1)

\* cases TIME OF FIRST OBS and TIME OF LAST OBS, t the parsed time
headerTime(hdr, rememberMe, key, t) ==
    [hdr |-> IF ~t.ok THEN hdr
             ELSE IF key = L_TimeOfFirstObs THEN [hdr EXCEPT !.TimeOfFirstObs = t.t]
             ELSE [hdr EXCEPT !.TimeOfLastObs = t.t],
     rememberMe |-> rememberMe,
     err |-> IF t.ok THEN NoErr
             ELSE IF key = L_TimeOfFirstObs THEN Errorf("parsing TIME OF FIRST OBS", 0)
             ELSE Errorf("parsing TIME OF LAST OBS", 0),
     end |-> FALSE]

\* One labelled header line: [hdr, rememberMe, err, end].  The cases that only
\* store a text field of the header (PGM / RUN BY / DATE, COMMENT, MARKER ...,
\* OBSERVER / AGENCY, REC # / TYPE / VERS, ANT # / TYPE, SIGNAL STRENGTH UNIT,
\* INTERVAL) cannot fail and change nothing that is read later: they are the
\* OTHER branch, like the labels the switch does not know.
headerLine(hdr0, rememberMe, line, lineNum) ==
    LET val == Slice(line, 0, 60)
        key == TrimSpace(SliceFrom(line, 60))
        hdr == [hdr0 EXCEPT !.labels = Append(@, key)]
        Go(h) == [hdr |-> h, rememberMe |-> rememberMe, err |-> NoErr, end |-> FALSE]
        Fail(msg, n) == [hdr |-> hdr, rememberMe |-> rememberMe, err |-> Errorf(msg, n),
                         end |-> FALSE]
    IN  CASE key = L_RinexVersion ->
                LET v == ParseFloat(TrimSpace(Slice(val, 0, 20)))
                    s == SysLookup(TrimSpace(Slice(val, 40, 41)))
                IN  IF ~v.ok THEN Fail("parsing RINEX VERSION", 0)
                    ELSE IF ~s.ok THEN Fail("read header: invalid satellite system", lineNum)
                    ELSE Go([hdr EXCEPT !.RINEXVersion = v.val, !.SatSystem = s.sys])
          [] key = L_ApproxPos ->
                IF Len(Fields(val)) # 3 THEN Fail("parsing approx. position", 0) ELSE Go(hdr)
          [] key = L_AntDelta ->
                IF Len(Fields(val)) # 3 THEN Fail("parsing antenna deltas", 0) ELSE Go(hdr)
          [] key = L_SysObsTypes ->
                LET sysStr == sysCode(val, rememberMe)
                    s == SysLookup(sysStr)
                IN  IF ~s.ok
                    THEN [hdr |-> hdr, rememberMe |-> sysStr,
                          err |-> Errorf("invalid satellite system", lineNum), end |-> FALSE]
                    ELSE [hdr |-> [hdr EXCEPT !.ObsTypes[s.sys] = sysObsTypes(@, val)],
                          rememberMe |-> sysStr, err |-> NoErr, end |-> FALSE]
          [] key \in {L_TimeOfFirstObs, L_TimeOfLastObs} ->
                headerTime(hdr, rememberMe, key, ParseTime(TrimSpace(Slice(val, 0, 43))))
          [] key = L_LeapSeconds ->
                LET i == Atoi(TrimSpace(Slice(val, 0, 6)))
                IN  IF ~i.ok THEN Fail("parsing LEAP SECONDS", 0)
                    ELSE Go([hdr EXCEPT !.LeapSeconds = i.val])
          [] key = L_NumSatellites ->
                LET i == Atoi(TrimSpace(Slice(val, 0, 6)))
                IN  IF ~i.ok THEN Fail("parsing # OF SATELLITES", 0)
                    ELSE Go([hdr EXCEPT !.NSatellites = i.val])
          [] key = L_EndOfHeader ->
                [hdr |-> hdr, rememberMe |-> rememberMe, err |-> NoErr, end |-> TRUE]
          [] OTHER -> Go(hdr)

\* The number of lines the scan loop passes with `continue` from the scanner's
\* position on: the lines of less than 60 columns up to the next line that has
\* 60 or that is beyond maxLines.  (The run is taken in one step: the loop does
\* nothing on these lines but count them.)
shortRun(d) ==
    LET left == Len(d.in.lines) - d.pos
        stops == {i \in 1..left :
                      Len(d.in.lines[d.pos + i]) >= 60 \/ d.lineNum + i > maxLines}
    IN  IF stops = {} THEN left ELSE SetMin(stops) - 1

skipLines(d, n) == [d EXCEPT !.pos = @ + n, !.lineNum = @ + n]

\* The scan loop of readHeader: [dec, hdr, err, ended], ended = END OF HEADER read.
RECURSIVE headerLoop(_, _, _)
headerLoop(d, hdr, rememberMe) ==
    IF ~CanScan(d)
    THEN LET d1 == [d EXCEPT !.eof = TRUE]
         IN  [dec |-> d1, hdr |-> hdr, err |-> scErr(d1), ended |-> FALSE]
    ELSE IF shortRun(d) > 0
    THEN headerLoop(skipLines(d, shortRun(d)), hdr, rememberMe)
    ELSE LET line == NextLine(d)
             d1 == [d EXCEPT !.pos = @ + 1, !.lineNum = @ + 1]
         IN  IF d1.lineNum > maxLines
             THEN [dec |-> d1, hdr |-> hdr,
                   err |-> Errorf("Reading header failed: end of header not found", maxLines),
                   ended |-> FALSE]
             ELSE IF Len(line) < 60 THEN headerLoop(d1, hdr, rememberMe)
             ELSE LET r == headerLine(hdr, rememberMe, line, d1.lineNum)
                  IN  IF r.err # NoErr \/ r.end
                      THEN [dec |-> d1, hdr |-> r.hdr, err |-> r.err, ended |-> r.end]
                      ELSE headerLoop(d1, r.hdr, r.rememberMe)

readHeader(d) == headerLoop(d, EmptyHeader, <<>>)

\* NewObsDecoder returns the decoder together with the header error (dec.err)
NewObsDecoder(r) ==
    LET h == readHeader(ObsDecoder(r))
    IN  [h.dec EXCEPT !.Header = h.hdr, !.err = h.err]

(***************************************************************************)
(* NextEpoch.  A call yields [dec, ret, panic]: the decoder after the call,*)
(* the returned bool, and whether the call died of a run-time panic (slice *)
(* bounds out of range, makeslice with a negative capacity).               *)
(***************************************************************************)
Returns(d, b) == [dec |-> d, ret |-> b, panic |-> FALSE]

Panics(d) == [dec |-> d, ret |-> FALSE, panic |-> TRUE]

\* dec.setErr(...); return false
Fails(d, msg) == Returns(setErr(d, Errorf(msg, d.lineNum)), FALSE)

\* the type list the satellite line is sliced with: the header's list for the
\* satellite's own system
\* (mutation of obsTypesOf: the GPS list for every system)
obsTypesOf_Gps(d, sys) == d.Header.ObsTypes["GPS"]

obsTypesOf(d, sys) == d.Header.ObsTypes[sys]

\* (mutation of lineEnded: one column left counts as none)
lineEnded_Early(line, col) == col + 2 > Len(line)

\* the test before the LLI and before the SNR column: no column is left
lineEnded(line, col) == col + 1 > Len(line)

\* The loop over the observation types of one satellite line, from type i at
\* column col on: [ok, msg, obs], obs the map filled so far.
RECURSIVE typLoop(_, _, _, _, _)
typLoop(line, types, i, col, obsPerTyp) ==
    IF i > Len(types) THEN [ok |-> TRUE, msg |-> "", obs |-> obsPerTyp]
    ELSE
    LET typ == types[i]
        Bad(msg) == [ok |-> FALSE, msg |-> msg, obs |-> obsPerTyp]
        Done(o) == [ok |-> TRUE, msg |-> "", obs |-> MapPut(obsPerTyp, typ, o)]
    IN  IF col + 14 > Len(line) THEN Bad("obstype out of range")
        ELSE
        LET obsStr == TrimSpace(Slice(line, col, col + 14))
            v == IF obsStr # <<>> THEN ParseFloat(obsStr) ELSE [ok |-> TRUE, val |-> 0]
            c1 == col + 14
        IN  IF ~v.ok THEN Bad("parsing the observation")
            ELSE IF lineEnded(line, c1)
            THEN Done([Val |-> v.val, LLI |-> 0, SNR |-> 0])
            ELSE
            LET lli == parseFlag(Slice(line, c1, c1 + 1))
                c2 == c1 + 1
            IN  IF ~lli.ok THEN Bad("parsing the LLI")
                ELSE IF lineEnded(line, c2)
                THEN Done([Val |-> v.val, LLI |-> lli.val, SNR |-> 0])
                ELSE
                LET snr == parseFlag(Slice(line, c2, c2 + 1))
                IN  IF ~snr.ok THEN Bad("parsing the SNR")
                    ELSE typLoop(line, types, i + 1, c2 + 1,
                                 MapPut(obsPerTyp, typ,
                                        [Val |-> v.val, LLI |-> lli.val, SNR |-> snr.val]))

\* a satellite line the loop passes with `continue`: a valid PRN and nothing
\* but blanks from column 3 on
blankSat(line) ==
    /\ Len(line) >= 3
    /\ SysLookup(Slice(line, 0, 1)).ok
    /\ Atoi(Slice(line, 1, 3)).ok
    /\ newPRN(SysLookup(Slice(line, 0, 1)).sys, Atoi(Slice(line, 1, 3)).val).ok
    /\ TrimSpace(SliceFrom(line, 3)) = <<>>

\* The number of such lines from the scanner's position on, of at most n.
\* (The run is taken in one step: the loop does nothing on these lines but
\* count them.)
blankRun(d, n) ==
    LET left == SetMin({n, Len(d.in.lines) - d.pos})
        stops == {i \in 1..left : ~blankSat(d.in.lines[d.pos + i])}
    IN  IF stops = {} THEN left ELSE SetMin(stops) - 1

\* The loop over the numSat satellite lines of an epoch, from line ii on.
RECURSIVE satLoop(_, _, _)
satLoop(d, ii, numSat) ==
    IF ii > numSat THEN Returns(d, TRUE)
    ELSE IF blankRun(d, numSat - ii + 1) > 0
    THEN satLoop(skipLines(d, blankRun(d, numSat - ii + 1)),
                 ii + blankRun(d, numSat - ii + 1), numSat)
    ELSE
    \* dec.sc.Scan() with its result ignored; Text() is "" when it failed
    LET scanned == CanScan(d)
        line == IF scanned THEN NextLine(d) ELSE <<>>
        d1 == IF scanned THEN [d EXCEPT !.pos = @ + 1, !.lineNum = @ + 1]
              ELSE [d EXCEPT !.eof = TRUE, !.lineNum = @ + 1]
    IN  IF scErr(d1) # NoErr THEN Fails(d1, "error in line: scanner")
        ELSE IF Len(line) < 1 THEN Panics(d1)
        ELSE
        LET s == SysLookup(Slice(line, 0, 1))
        IN  IF ~s.ok THEN Fails(d1, "invalid satellite system")
            ELSE IF Len(line) < 3 THEN Panics(d1)
            ELSE
            LET snum == Atoi(Slice(line, 1, 3))
                p == newPRN(s.sys, snum.val)
            IN  IF ~snum.ok THEN Fails(d1, "parsing sat num")
                ELSE IF ~p.ok THEN Fails(d1, "parsing sat num: check satellite number")
                ELSE IF TrimSpace(SliceFrom(line, 3)) = <<>>
                THEN satLoop(d1, ii + 1, numSat)
                ELSE
                LET o == typLoop(line, obsTypesOf(d1, s.sys), 1, 3, EmptyMap)
                IN  IF ~o.ok THEN Fails(d1, o.msg)
                    ELSE satLoop([d1 EXCEPT !.epo.ObsList =
                                      Append(@, [Prn |-> p.prn, Obss |-> o.obs])],
                                 ii + 1, numSat)

\* An epoch marker line ("> " seen): the time, the flag, the satellite count,
\* the new current epoch, then the satellite lines.
epochLine(d, line) ==
    IF Len(line) < 29 THEN Panics(d)
    ELSE
    LET epTime == ParseTime(Slice(line, 2, 29))
    IN  IF ~epTime.ok THEN Fails(d, "error in line: time")
        ELSE IF Len(line) < 32 THEN Panics(d)
        ELSE
        LET epochFlag == Atoi(Slice(line, 31, 32))
        IN  IF ~epochFlag.ok THEN Fails(d, "parsing epoch flag")
            ELSE IF Len(line) < 35 THEN Panics(d)
            ELSE
            LET numSat == Atoi(TrimSpace(Slice(line, 32, 35)))
            IN  IF ~numSat.ok THEN Fails(d, "error in line: number of satellites")
                ELSE IF numSat.val < 0 THEN Panics(d)
                ELSE satLoop([d EXCEPT !.epo =
                                  [nil |-> FALSE, Time |-> epTime.t, Flag |-> epochFlag.val,
                                   NumSat |-> numSat.val % 256, ObsList |-> <<>>]],
                             1, numSat.val)

\* (mutation of endOfInput: the error is recorded without the test for nil)
endOfInput_Always(d) ==
    Returns(setErr(d, Errorf("read epoch scanner error", 0)), FALSE)

\* the statements after the scan loop: record the scanner's error, if any
endOfInput(d) ==
    IF scErr(d) # NoErr
    THEN Returns(setErr(d, Errorf("read epoch scanner error", 0)), FALSE)
    ELSE Returns(d, FALSE)

RECURSIVE NextEpoch(_)
NextEpoch(d) ==
    IF ~CanScan(d)
    THEN endOfInput([d EXCEPT !.eof = TRUE])
    ELSE LET line == NextLine(d)
             d1 == [d EXCEPT !.pos = @ + 1, !.lineNum = @ + 1]
         IN  IF Len(line) < 1 THEN NextEpoch(d1)
             ELSE IF ~HasPrefix(line, <<">", " ">>) THEN NextEpoch(d1)
             ELSE epochLine(d1, line)

(***************************************************************************)
(* sync.  A call yields [dec, dec2, ret, panic].  epoF1 and epoF2 are the  *)
(* call's local variables: both are nil when a call starts.                *)
(***************************************************************************)
\* the match test, epoF1.Time.Equal(epoF2.Time)
\* (mutation of syncMatch: a secondary epoch that is later also matches)
syncMatch_OrAfter(epoF1, epoF2) ==
    TimeEqual(epoF1.Time, epoF2.Time) \/ TimeAfter(epoF2.Time, epoF1.Time)

syncMatch(epoF1, epoF2) == TimeEqual(epoF1.Time, epoF2.Time)

\* "next epo1 needed", epoF2.Time.After(epoF1.Time)
\* (mutation of syncAhead: the comparison the other way round)
syncAhead_Swapped(epoF1, epoF2) == TimeAfter(epoF1.Time, epoF2.Time)

syncAhead(epoF1, epoF2) == TimeAfter(epoF2.Time, epoF1.Time)

\* the statements after the outer loop: surface the secondary's error
\* (mutation of syncEnd: the secondary's error is dropped)
syncEnd_Silent(d, d2) == [dec |-> d, dec2 |-> d2, ret |-> FALSE, panic |-> FALSE]

syncEnd(d, d2) ==
    [dec |-> IF Err(d2) # NoErr
             THEN setErr(d, [msg |-> "stream2 decoder error", line |-> Err(d2).line,
                             cause |-> Err(d2).msg])
             ELSE d,
     dec2 |-> d2, ret |-> FALSE, panic |-> FALSE]

RECURSIVE syncOuter(_, _, _), syncInner(_, _, _, _)
\* for dec.NextEpoch() { ... }
syncOuter(d, d2, epoF2) ==
    LET r == NextEpoch(d)
    IN  IF r.panic THEN [dec |-> r.dec, dec2 |-> d2, ret |-> FALSE, panic |-> TRUE]
        ELSE IF ~r.ret THEN syncEnd(r.dec, d2)
        ELSE
        LET epoF1 == Epoch(r.dec)
        IN  IF ~epoF2.nil /\ syncMatch(epoF1, epoF2)
            THEN [dec |-> [r.dec EXCEPT !.syncEpo = epoF2], dec2 |-> d2,
                  ret |-> TRUE, panic |-> FALSE]
            ELSE IF ~epoF2.nil /\ syncAhead(epoF1, epoF2)
            THEN syncOuter(r.dec, d2, epoF2)
            ELSE syncInner(r.dec, d2, epoF1, epoF2)

\* for dec2.NextEpoch() { ... }
syncInner(d, d2, epoF1, epoF2) ==
    LET r2 == NextEpoch(d2)
    IN  IF r2.panic THEN [dec |-> d, dec2 |-> r2.dec, ret |-> FALSE, panic |-> TRUE]
        ELSE IF ~r2.ret THEN syncOuter(d, r2.dec, epoF2)
        ELSE
        LET e2 == Epoch(r2.dec)
        IN  IF syncMatch(epoF1, e2)
            THEN [dec |-> [d EXCEPT !.syncEpo = e2], dec2 |-> r2.dec,
                  ret |-> TRUE, panic |-> FALSE]
            ELSE IF syncAhead(epoF1, e2)
            THEN syncOuter(d, r2.dec, e2)
            ELSE syncInner(d, r2.dec, epoF1, e2)

sync(d, d2) == syncOuter(d, d2, NilEpoch)

(***************************************************************************)
(* Input text: builders for header lines, epoch marker lines and satellite *)
(* lines in the column layout of the format.                               *)
(***************************************************************************)
Blanks(n) == [i \in 1..n |-> " "]

\* left-justified / right-justified in a field of n columns
Pad(s, n) == s \o Blanks(n - Len(s))

RJust(s, n) == Blanks(n - Len(s)) \o s

RECURSIVE JoinToks(_)
JoinToks(toks) ==
    IF toks = <<>> THEN <<>> ELSE Head(toks) \o <<" ">> \o JoinToks(Tail(toks))

\* an 60-column value field followed by the label
HeaderLine(val, label) == Pad(val, 60) \o label

\* SYS / # / OBS TYPES: system code [0:1), count [3:6), type tokens from column 7
SysLine(code, count, toks) ==
    HeaderLine(code \o Blanks(2) \o RJust(count, 3) \o <<" ">> \o JoinToks(toks),
               L_SysObsTypes)

EndLine == HeaderLine(<<>>, L_EndOfHeader)

CommentLine == HeaderLine(<<"x">>, L_Comment)

T_C1C == <<"C", "1", "C">>

T_L1C == <<"L", "1", "C">>

T_D1C == <<"D", "1", "C">>

T_C1P == <<"C", "1", "P">>

VersionLine ==
    HeaderLine(RJust(<<"3", ".", "0", "4">>, 9) \o Blanks(11) \o Pad(<<"O">>, 20)
                   \o <<"M">>, L_RinexVersion)

\* the header of the body streams: GPS has C1C L1C, GLONASS has C1P
StdHeader ==
    << VersionLine,
       SysLine(<<"G">>, <<"2">>, <<T_C1C, T_L1C>>),
       SysLine(<<"R">>, <<"1">>, <<T_C1P>>),
       EndLine >>

\* the 27-column time field of 2018-11-06 19:00 and sec seconds
TimeField(sec) ==
    <<"2", "0", "1", "8", " ", "1", "1", " ", "0", "6", " ", "1", "9", " ", "0", "0", " ">> \o RJust(<<Digits[sec + 1]>>, 2) \o <<".", "0", "0", "0", "0", "0", "0", "0">>

\* "> " time [2:29), flag [31:32), satellite count [32:35)
MarkerLine(sec, flag, count) ==
    <<">", " ">> \o TimeField(sec) \o Blanks(2) \o flag \o RJust(count, 3)

\* one observation: value F14.3 right-justified, LLI, SNR
ObsField(val, lli, snr) == RJust(val, 14) \o lli \o snr

V1 == <<"2", "3", ".", "5", "0", "0">>

V2 == <<"1", "0", "7", ".", "2", "5", "0">>

SatG ==
    <<"G", "0", "1">> \o ObsField(V1, <<"1">>, <<"7">>) \o ObsField(V2, <<" ">>, <<"8">>)

SatR == <<"R", "0", "2">> \o ObsField(V1, <<" ">>, <<"6">>)

\* The lines a body stream is made of.
BodyPool ==
    { MarkerLine(1, <<"0">>, <<"1">>),        \* epoch of one satellite
      MarkerLine(2, <<"0">>, <<"0">>),        \* epoch of no satellite
      MarkerLine(3, <<"0">>, <<"2">>),        \* epoch of two satellites
      MarkerLine(1, <<"x">>, <<"1">>),        \* flag not a number
      SatG,                                   \* both GPS types, with flags
      SubSeq(SatG, 1, 17),                    \* cut after the first value
      SubSeq(SatG, 1, 18),                    \* cut after the first LLI
      SubSeq(SatG, 1, 19),                    \* cut after the first SNR
      SatR,                                   \* the one GLONASS type
      <<"E", "0", "5">> \o RJust(V1, 14),      \* system without declared types
      <<"G", "0", "1">>,                      \* nothing from column 3 on
      <<"R", "0", "2">> \o Blanks(16),        \* blank from column 3 on
      <<"X", "0", "1">> \o ObsField(V1, <<" ">>, <<" ">>),  \* unknown system
      <<"G", "6", "1">> \o RJust(V1, 14),      \* number out of range
      <<"G", "0", "1">> \o ObsField(<<"1", "x">>, <<" ">>, <<" ">>),  \* value not a number
      <<>> }                                  \* empty line

BodySeqs == UNION {[1..n -> BodyPool] : n \in 0..MaxLines}

Reader(lines, fail) == [lines |-> lines, fail |-> fail]

(***************************************************************************)
(* Calls and their history.                                                *)
(***************************************************************************)
\* what a caller can observe after a call on the primary decoder
Call(op, before, d, d2, ret) ==
    [op |-> op, ret |-> ret, from |-> before.pos, to |-> d.pos,
     err |-> Err(d), err2 |-> Err(d2), epo |-> Epoch(d), pair |-> SyncEpoch(d)]

Last == hist[Len(hist)]

\* Calls stop one call after the primary's input is used up.
MayCall == ~crashed /\ (IF hist = <<>> THEN TRUE ELSE Last.from < Len(dec1.in.lines))

\* dec1.NextEpoch()
DoNextEpoch ==
    /\ MayCall
    /\ \E r \in {NextEpoch(dec1)} :
           /\ dec1' = r.dec
           /\ crashed' = r.panic
           /\ hist' = IF r.panic THEN hist
                      ELSE Append(hist, Call("NextEpoch", dec1, r.dec, dec2, r.ret))
    /\ UNCHANGED dec2

\* dec1.sync(dec2)
DoSync ==
    /\ MayCall
    /\ \E r \in {sync(dec1, dec2)} :
           /\ dec1' = r.dec
           /\ dec2' = r.dec2
           /\ crashed' = r.panic
           /\ hist' = IF r.panic THEN hist
                      ELSE Append(hist, Call("sync", dec1, r.dec, r.dec2, r.ret))

(***************************************************************************)
(* Spec: one decoder over a header and a body of up to MaxLines lines,     *)
(* read with NextEpoch until the input is used up.                         *)
(***************************************************************************)
Init ==
    \E body \in BodySeqs, fail \in BOOLEAN :
        /\ dec1 = NewObsDecoder(Reader(StdHeader \o body, fail))
        /\ dec2 = ObsDecoder(Reader(<<>>, FALSE))
        /\ crashed = FALSE
        /\ hist = <<>>

Next == DoNextEpoch

Spec == Init /\ [][Next]_vars

(***************************************************************************)
(* Properties of NextEpoch (Spec).                                         *)
(***************************************************************************)
Calls == 1..Len(hist)

\* the lines call i read
Consumed(i) == SubSeq(dec1.in.lines, hist[i].from + 1, hist[i].to)

IsMarker(line) == HasPrefix(line, <<">", " ">>)

\* the satellite lines call i read: what follows the first marker line it met
SatLines(i) ==
    LET c == Consumed(i)
        m == {k \in 1..Len(c) : IsMarker(c[k])}
    IN  IF m = {} THEN <<>> ELSE SubSeq(c, SetMin(m) + 1, Len(c))

UnknownSystem(line) == Len(line) >= 1 /\ line[1] \notin DOMAIN sysPerAbbr

NumberOutOfRange(line) ==
    /\ Len(line) >= 3
    /\ ~UnknownSystem(line)
    /\ Atoi(Slice(line, 1, 3)).ok
    /\ Atoi(Slice(line, 1, 3)).val \notin 1..60

\* C1: once a NextEpoch call has failed with a fatal condition (false, Err()
\* non-nil), every later NextEpoch call on the decoder returns false.
C1_StickyExhaustion ==
    \A i, j \in Calls :
        (i < j /\ ~hist[i].ret /\ hist[i].err # NoErr) => ~hist[j].ret

\* C7: every epoch NextEpoch returned true for has NumSat = len(ObsList),
\* satellite lines blank from column 3 on included.
C7_NumSatIsLen ==
    \A i \in Calls :
        hist[i].ret => hist[i].epo.NumSat = Len(hist[i].epo.ObsList)

\* C8: every SatObs of a produced epoch has a PRN number in [1,60] and a system
\* of the system table; a call that read a satellite line with an unknown
\* system code or a number outside [1,60] returned false with Err() non-nil.
C8_PrnValid ==
    \A i \in Calls :
        /\ hist[i].ret =>
              \A k \in 1..Len(hist[i].epo.ObsList) :
                  /\ hist[i].epo.ObsList[k].Prn.Num \in 1..60
                  /\ hist[i].epo.ObsList[k].Prn.Sys \in Systems
        /\ (\E k \in 1..Len(SatLines(i)) :
               UnknownSystem(SatLines(i)[k]) \/ NumberOutOfRange(SatLines(i)[k]))
              => (~hist[i].ret /\ hist[i].err # NoErr)

\* a call read a good satellite line and then one with number 61, and failed
C8_Witness ==
    \E i \in Calls :
        /\ Len(SatLines(i)) = 2
        /\ NumberOutOfRange(SatLines(i)[2])
        /\ ~hist[i].ret /\ hist[i].err # NoErr
        /\ Len(hist[i].epo.ObsList) = 1
        /\ hist[i].epo.ObsList[1].Prn.Num \in 1..60

IsPrefixSet(keys, types) ==
    \E n \in 0..Len(types) : keys = {types[j] : j \in 1..n}

\* C9: in every produced epoch, the keys of each SatObs are the first k types
\* of the header's list for the satellite's own system.
C9_KeysArePrefix ==
    \A i \in Calls :
        hist[i].ret =>
            \A k \in 1..Len(hist[i].epo.ObsList) :
                LET so == hist[i].epo.ObsList[k]
                IN  IsPrefixSet(DOMAIN so.Obss, dec1.Header.ObsTypes[so.Prn.Sys])

\* an epoch of two satellites of different systems: one with both GPS types,
\* one whose system has no declared type and so no key
C9_Witness ==
    \E i \in Calls :
        /\ hist[i].ret
        /\ Len(hist[i].epo.ObsList) = 2
        /\ \E k, l \in 1..2 :
              /\ hist[i].epo.ObsList[k].Prn.Sys = "GPS"
              /\ DOMAIN hist[i].epo.ObsList[k].Obss = {T_C1C, T_L1C}
              /\ hist[i].epo.ObsList[l].Prn.Sys = "Galileo"
              /\ DOMAIN hist[i].epo.ObsList[l].Obss = {}

\* C15: a call that meets the clean end of the input (no read error, no
\* marker line left, no error recorded before) returns false and leaves Err()
\* nil; Err() is never io.EOF.
C15_CleanEnd ==
    \A i \in Calls :
        /\ hist[i].err # EOF
        /\ (/\ ~dec1.in.fail
            /\ hist[i].to = Len(dec1.in.lines)
            /\ \A k \in 1..Len(Consumed(i)) : ~IsMarker(Consumed(i)[k])
            /\ (i > 1 => hist[i - 1].err = NoErr))
               => (~hist[i].ret /\ hist[i].err = NoErr)

\* an epoch was decoded, the next call found the input used up: false, no error
C15_Witness ==
    \E i \in Calls :
        /\ i > 1
        /\ hist[i - 1].ret /\ hist[i - 1].epo.ObsList # <<>>
        /\ hist[i].from = Len(dec1.in.lines)
        /\ ~dec1.in.fail
        /\ ~hist[i].ret /\ hist[i].err = NoErr

\* the scanner position the call made last started at (a call that panicked
\* has no record; it started where the call before it ended)
LastFrom ==
    IF ~crashed THEN Last.from
    ELSE IF hist = <<>> THEN NewObsDecoder(dec1.in).pos ELSE Last.to

\* the call made last read a marker line that announces more satellite lines
\* than the input holds after it, and Scan returned false
Truncated ==
    /\ crashed \/ hist # <<>>
    /\ dec1.eof
    /\ \E m \in (LastFrom + 1)..Len(dec1.in.lines) :
           /\ IsMarker(dec1.in.lines[m])
           /\ \A k \in (LastFrom + 1)..(m - 1) : ~IsMarker(dec1.in.lines[k])
           /\ Atoi(TrimSpace(Slice(dec1.in.lines[m], 32, 35))).val
                  > Len(dec1.in.lines) - m

\* C16: when the input ends after an epoch marker line and before all the
\* satellite lines it announces, NextEpoch returns false with Err() non-nil;
\* it does not panic.
C16_TruncatedIsError ==
    Truncated => (~crashed /\ ~Last.ret /\ Last.err # NoErr)

\* the line the call made last stopped at, when Scan returned it
LastLineRead == dec1.in.lines[dec1.pos]

\* the call made last stopped at a line it read as an epoch marker line of
\* less than 35 columns, or as a satellite line of less than 3 columns
ShortLineRead ==
    /\ crashed \/ hist # <<>>
    /\ ~dec1.eof
    /\ dec1.pos > LastFrom
    /\ IF \E m \in (LastFrom + 1)..(dec1.pos - 1) : IsMarker(dec1.in.lines[m])
       THEN Len(LastLineRead) < 3
       ELSE IsMarker(LastLineRead) /\ Len(LastLineRead) < 35

\* C21: a body line shorter than the column layout it is read with is a
\* grammar error: NextEpoch returns false with Err() non-nil and does not
\* panic.
C21_ShortLineIsError ==
    ShortLineRead => (~crashed /\ ~Last.ret /\ Last.err # NoErr)

\* the epoch Epoch() returned before call i
EpochBefore(i) == IF i = 1 THEN NilEpoch ELSE hist[i - 1].epo

\* C22: after a NextEpoch call that returns false, Epoch() returns the same
\* epoch as before that call.
C22_FailedKeepsEpoch ==
    \A i \in Calls :
        (hist[i].op = "NextEpoch" /\ ~hist[i].ret) => hist[i].epo = EpochBefore(i)

(***************************************************************************)
(* SpecSync: two decoders over streams of up to MaxEpochs epochs with      *)
(* times in 1..MaxTime, in any order, driven by sync alone (as Diff does). *)
(* A stream has at most one fault: one damaged epoch, or a read error      *)
(* after its last line.                                                    *)
(***************************************************************************)
\* the header of the synchronized streams: GPS has C1C
SyncHeader == <<SysLine(<<"G">>, <<"1">>, <<T_C1C>>), EndLine>>

\* a satellite line with the one GPS type
SyncSat == <<"G", "0", "1">> \o ObsField(V1, <<"1">>, <<"7">>)

BadSat == <<"X", "0", "1">> \o ObsField(V1, <<" ">>, <<" ">>)

\* An epoch of one satellite at second t.  A damaged one is two records that
\* both fail to decode: a marker with a flag that is no number, then a marker
\* with a satellite line of an unknown system.
Block(t, bad) ==
    IF bad
    THEN <<MarkerLine(t, <<"x">>, <<"1">>), MarkerLine(t, <<"0">>, <<"1">>), BadSat>>
    ELSE <<MarkerLine(t, <<"0">>, <<"1">>), SyncSat>>

RECURSIVE Blocks(_, _, _)
Blocks(ts, k, badAt) ==
    IF k > Len(ts) THEN <<>>
    ELSE Block(ts[k], k = badAt) \o Blocks(ts, k + 1, badAt)

TimeSeqs == UNION {[1..n -> 1..MaxTime] : n \in 0..MaxEpochs}

\* fault -1: read error after the last line; 0: none; k >= 1: epoch k is damaged
SyncReaders ==
    { Reader(SyncHeader \o Blocks(ts, 1, fault), fault = -1) :
        ts \in TimeSeqs, fault \in -1..MaxEpochs }

InitSync ==
    \E r1 \in SyncReaders, r2 \in SyncReaders :
        /\ dec1 = NewObsDecoder(r1)
        /\ dec2 = NewObsDecoder(r2)
        /\ crashed = FALSE
        /\ hist = <<>>

NextSync == DoSync

SpecSync == InitSync /\ [][NextSync]_vars

(***************************************************************************)
(* SpecAsc: as SpecSync, over streams whose epochs are in strictly         *)
(* ascending order of time (the times of a stream are a subset of          *)
(* 1..MaxAscTime), the order the format prescribes.                        *)
(***************************************************************************)
RECURSIVE SortedSeq(_)
SortedSeq(S) ==
    IF S = {} THEN <<>> ELSE <<SetMin(S)>> \o SortedSeq(S \ {SetMin(S)})

AscReaders ==
    { Reader(SyncHeader \o Blocks(SortedSeq(S), 1, fault), fault = -1) :
        S \in SUBSET (1..MaxAscTime), fault \in -1..MaxAscTime }

InitAsc ==
    \E r1 \in AscReaders, r2 \in AscReaders :
        /\ dec1 = NewObsDecoder(r1)
        /\ dec2 = NewObsDecoder(r2)
        /\ crashed = FALSE
        /\ hist = <<>>

NextAsc == DoSync

SpecAsc == InitAsc /\ [][NextAsc]_vars

(***************************************************************************)
(* Properties of sync (SpecSync, SpecAsc).                                 *)
(***************************************************************************)
\* a decoder as NewObsDecoder returned it
Start(d) == NewObsDecoder(d.in)

\* NextEpoch called until it returns false, as a plain reader of the stream
\* does: the epochs it yields, and whether it ended without error or panic
RECURSIVE Drain(_)
Drain(d) ==
    LET r == NextEpoch(d)
    IN  IF r.panic THEN [epochs |-> <<>>, ok |-> FALSE]
        ELSE IF ~r.ret THEN [epochs |-> <<>>, ok |-> Err(r.dec) = NoErr]
        ELSE LET rest == Drain(r.dec)
             IN  [epochs |-> <<Epoch(r.dec)>> \o rest.epochs, ok |-> rest.ok]

\* every epoch NextEpoch ever returns true for, failed calls in between or
\* not, each with the scanner position its decoding ended at
RECURSIVE Produced(_)
Produced(d) ==
    LET r == NextEpoch(d)
    IN  IF r.panic THEN {}
        ELSE (IF r.ret THEN {[epo |-> Epoch(r.dec), to |-> r.dec.pos]} ELSE {})
                 \cup (IF CanScan(r.dec) THEN Produced(r.dec) ELSE {})

Times(epochs) == [k \in 1..Len(epochs) |-> epochs[k].Time]

Ascending(ts) == \A k \in 1..(Len(ts) - 1) : TimeAfter(ts[k + 1], ts[k])

InSeq(x, q) == \E k \in 1..Len(q) : q[k] = x

\* the pairs the sync calls so far returned true with
Emitted == SelectSeq(hist, LAMBDA h : h.ret)

\* C2: once Err() of a decoder is non-nil, no later call changes it.
C2_FirstErrorWins ==
    \A i, j \in Calls :
        i < j =>
            /\ hist[i].err # NoErr => hist[j].err = hist[i].err
            /\ hist[i].err2 # NoErr => hist[j].err2 = hist[i].err2

\* the primary failed first; a later sync found the secondary failed and the
\* primary's error is still the first one
C2_Witness ==
    \E i, j \in Calls :
        /\ i < j
        /\ hist[i].err # NoErr /\ hist[i].err2 = NoErr
        /\ hist[j].err2 # NoErr /\ ~hist[j].ret
        /\ hist[j].err = hist[i].err

\* C3: for two streams that read without error and with strictly ascending
\* times, sync called until it returns false emits one pair for each time of
\* both streams, in ascending order, and no other pair.
C3_SortedIntersection ==
    (hist # <<>> /\ ~Last.ret) =>
        \E a \in {Drain(Start(dec1))}, b \in {Drain(Start(dec2))} :
            \E ta \in {Times(a.epochs)}, tb \in {Times(b.epochs)} :
                (a.ok /\ b.ok /\ Ascending(ta) /\ Ascending(tb)) =>
                    /\ [k \in 1..Len(Emitted) |-> Emitted[k].pair.Epo1.Time]
                           = SelectSeq(ta, LAMBDA t : InSeq(t, tb))
                    /\ \A k \in 1..Len(Emitted) :
                           Emitted[k].pair.Epo2.Time = Emitted[k].pair.Epo1.Time

\* streams 1,2,3 and 2,3: an epoch without partner, then two pairs in a row
C3_Witness ==
    /\ hist # <<>> /\ ~Last.ret
    /\ Len(Emitted) = 2
    /\ \E a \in {Drain(Start(dec1))}, b \in {Drain(Start(dec2))} :
           /\ a.ok /\ b.ok
           /\ Len(a.epochs) = 3 /\ Len(b.epochs) = 2
           /\ b.epochs[1].Time = a.epochs[2].Time
           /\ b.epochs[2].Time = a.epochs[3].Time

\* C4: when sync returns true, SyncEpoch() is the epoch the primary decoded
\* last and an epoch the secondary decoded, both non-nil, with equal times.
\* (Stated of the call just made: every call is the last one of some state.)
C4_PairIsSynchronized ==
    (hist # <<>> /\ Last.ret) =>
        /\ ~Last.pair.Epo1.nil /\ ~Last.pair.Epo2.nil
        /\ [epo |-> Last.pair.Epo1, to |-> Last.to] \in Produced(Start(dec1))
        /\ \E p \in Produced(Start(dec2)) : p.epo = Last.pair.Epo2
        /\ TimeEqual(Last.pair.Epo1.Time, Last.pair.Epo2.Time)

\* a pair emitted from streams that are not ascending
C4_Witness ==
    \E i \in Calls :
        /\ hist[i].ret
        /\ ~Ascending(Times(Drain(Start(dec1)).epochs))
        /\ hist[i].pair.Epo1.ObsList # <<>>
        /\ hist[i].pair.Epo2.ObsList # <<>>

\* C5: once a NextEpoch call of either decoder has failed with a fatal error
\* during sync, that sync call and every later one return false.
C5_ErrorEndsSync ==
    \A i, j \in Calls :
        (i <= j /\ (hist[i].err # NoErr \/ hist[i].err2 # NoErr)) => ~hist[j].ret

\* C6: when sync returns false and the secondary's Err() is non-nil, the
\* primary's Err() is non-nil.
C6_SecondaryErrorSurfaced ==
    \A i \in Calls :
        (~hist[i].ret /\ hist[i].err2 # NoErr) => hist[i].err # NoErr

\* the primary read to its end without a failure of its own, the secondary
\* failed: the primary reports the secondary's error
C6_Witness ==
    \E i \in Calls :
        /\ ~hist[i].ret
        /\ hist[i].err2 # NoErr
        /\ hist[i].err.msg = "stream2 decoder error"
        /\ hist[i].err.cause = hist[i].err2.msg

(***************************************************************************)
(* SpecHdr: the header parser on a SYS / # / OBS TYPES record of up to     *)
(* MaxTok types, written once split over continuation lines (dec1) and     *)
(* once on a single line (dec2); both decoders are opened as Diff opens    *)
(* its two files.                                                          *)
(***************************************************************************)
TypePool == {T_C1C, T_L1C, T_D1C}

TokSeqs == UNION {[1..n -> TypePool] : n \in 1..MaxTok}

\* toks[from..] cut into pieces after each index of cuts
RECURSIVE Pieces(_, _, _)
Pieces(toks, cuts, from) ==
    IF from > Len(toks) THEN <<>>
    ELSE LET later == {c \in cuts : c >= from}
             to == IF later = {} THEN Len(toks) ELSE SetMin(later)
         IN  <<SubSeq(toks, from, to)>> \o Pieces(toks, cuts, to + 1)

\* continuation lines (blank system code, blank count) for pieces k.., each
\* preceded by the filler lines
RECURSIVE ContLines(_, _, _)
ContLines(pieces, k, filler) ==
    IF k > Len(pieces) THEN <<>>
    ELSE filler \o <<SysLine(<<" ">>, <<>>, pieces[k])>> \o ContLines(pieces, k + 1, filler)

CountOf(toks) == <<Digits[Len(toks) + 1]>>

\* an earlier record of another system, so that a system is remembered
\* before the record starts
Prelude == <<VersionLine, SysLine(<<"E">>, <<"1">>, <<T_C1P>>)>>

SplitHeader(code, toks, cuts, filler) ==
    LET pieces == Pieces(toks, cuts, 1)
    IN  Prelude \o <<SysLine(code, CountOf(toks), pieces[1])>>
            \o ContLines(pieces, 2, filler) \o <<EndLine>>

SingleHeader(code, toks) ==
    Prelude \o <<SysLine(code, CountOf(toks), toks)>> \o <<EndLine>>

\* what may lie between two lines of the record: nothing, a comment, a line
\* of less than 60 columns, a record of a label the parser does not know
Fillers ==
    { <<>>,
      <<CommentLine>>,
      <<Blanks(10)>>,
      <<HeaderLine(<<"x">>, <<"O", "T", "H", "E", "R">>)>> }

InitHdr ==
    \E code \in {<<"G">>, <<"R">>}, toks \in TokSeqs, filler \in Fillers :
        \E cuts \in SUBSET (1..(Len(toks) - 1)) :
            /\ dec1 = ObsDecoder(Reader(SplitHeader(code, toks, cuts, filler), FALSE))
            /\ dec2 = ObsDecoder(Reader(SingleHeader(code, toks), FALSE))
            /\ crashed = FALSE
            /\ hist = <<>>

\* dec, err := NewObsDecoder(r); dec2, err := NewObsDecoder(r2)
DoOpen ==
    /\ hist = <<>>
    /\ dec1.pos = 0
    /\ \E d \in {NewObsDecoder(dec1.in)}, d2 \in {NewObsDecoder(dec2.in)} :
           /\ dec1' = d
           /\ dec2' = d2
           /\ hist' = Append(hist, Call("NewObsDecoder", dec1, d, d2, d.err = NoErr))
    /\ UNCHANGED crashed

NextHdr == DoOpen

SpecHdr == InitHdr /\ [][NextHdr]_vars

\* the SYS / # / OBS TYPES lines of a decoder's input
SysLinesOf(d) ==
    SelectSeq(d.in.lines,
              LAMBDA l : Len(l) >= 60 /\ TrimSpace(SliceFrom(l, 60)) = L_SysObsTypes)

\* C10: a SYS / # / OBS TYPES record split over N lines yields the same
\* ordered type lists as the record on a single line, also with lines of other
\* labels between the continuation lines.
C10_ContinuationRoundTrip ==
    hist # <<>> =>
        /\ hist[1].err = NoErr /\ hist[1].err2 = NoErr
        /\ dec1.Header.ObsTypes = dec2.Header.ObsTypes

\* a record of three types on three lines, other lines in between
C10_Witness ==
    /\ hist # <<>>
    /\ Len(SysLinesOf(dec1)) = 4 /\ Len(SysLinesOf(dec2)) = 2
    /\ Len(dec1.in.lines) = 8
    /\ dec1.Header.ObsTypes["GPS"] = <<T_C1C, T_L1C, T_D1C>>
    /\ dec1.Header.ObsTypes["Galileo"] = <<T_C1P>>

(***************************************************************************)
(* SpecOpen: a decoder opened on a stream of n lines without header label  *)
(* (n around 0 and around maxLines) followed by up to MaxTail lines that   *)
(* may be END OF HEADER or epoch markers, then read with NextEpoch.        *)
(***************************************************************************)
\* the numbers of leading lines: none, one, and the three around the limit
LeadLens == {0, 1, maxLines - 1, maxLines, maxLines + 1}

\* a leading line: one of less than 60 columns
LeadLines == {<<>>, <<"x">>, Blanks(59)}

\* an epoch of no satellite at second t
EmptyEpoch(t) == MarkerLine(t, <<"0">>, <<"0">>)

TailPool == {EndLine, EmptyEpoch(1), EmptyEpoch(2), CommentLine}

TailSeqs == UNION {[1..n -> TailPool] : n \in 0..MaxTail}

InitOpen ==
    \E n \in LeadLens, lead \in LeadLines, tail \in TailSeqs, fail \in BOOLEAN :
        /\ dec1 = ObsDecoder(Reader([i \in 1..n |-> lead] \o tail, fail))
        /\ dec2 = ObsDecoder(Reader(<<EndLine>>, FALSE))
        /\ crashed = FALSE
        /\ hist = <<>>

\* dec.NextEpoch() on the decoder NewObsDecoder returned
DoRead ==
    /\ hist # <<>>
    /\ DoNextEpoch

NextOpen == DoOpen \/ DoRead

SpecOpen == InitOpen /\ [][NextOpen]_vars

IsEndOfHeader(line) == Len(line) >= 60 /\ TrimSpace(SliceFrom(line, 60)) = L_EndOfHeader

\* the first n lines of the primary's input (all of them when it has fewer)
FirstLines(n) ==
    SubSeq(dec1.in.lines, 1, IF Len(dec1.in.lines) < n THEN Len(dec1.in.lines) ELSE n)

HasEnd(lines) == \E k \in 1..Len(lines) : IsEndOfHeader(lines[k])

\* C11: when the stream has more than 800 lines and none of the first 800 is
\* END OF HEADER, NewObsDecoder returns a non-nil error and no NextEpoch call
\* on the decoder returns true.
C11_HeaderTooLong ==
    (hist # <<>> /\ Len(dec1.in.lines) > maxLines /\ ~HasEnd(FirstLines(maxLines))) =>
        /\ hist[1].err # NoErr
        /\ \A j \in Calls : j > 1 => ~hist[j].ret

\* C12: NewObsDecoder returns without error only if the header scan has read
\* an END OF HEADER line; a stream that ends before one gives a non-nil error.
C12_HeaderTerminated ==
    (hist # <<>> /\ hist[1].err = NoErr) => HasEnd(FirstLines(hist[1].to))

(***************************************************************************)
(* SpecCut: one decoder over a header that declares MaxTok GPS types and   *)
(* an epoch whose marker announces one or two satellites and whose one     *)
(* satellite line is cut at any column; another epoch may follow.          *)
(***************************************************************************)
AllTypes == <<T_C1C, T_L1C, T_D1C, T_C1P>>

CutTypes == SubSeq(AllTypes, 1, MaxTok)

CutHeader == <<SysLine(<<"G">>, CountOf(CutTypes), CutTypes), EndLine>>

\* one value/LLI/SNR field: both flags given, both flags blank, all blank
FieldPool ==
    { ObsField(V1, <<"1">>, <<"7">>), ObsField(V2, <<" ">>, <<" ">>), Blanks(16) }

RECURSIVE Flatten(_)
Flatten(ss) == IF ss = <<>> THEN <<>> ELSE Head(ss) \o Flatten(Tail(ss))

\* the satellite lines with all MaxTok fields
FullSats == {<<"G", "0", "1">> \o Flatten(fs) : fs \in [1..MaxTok -> FieldPool]}

InitCut ==
    \E full \in FullSats, count \in {<<"1">>, <<"2">>}, fail \in BOOLEAN :
        \E c \in 0..Len(full), rest \in {<<>>, <<EmptyEpoch(2)>>} :
            /\ dec1 = NewObsDecoder(Reader(CutHeader
                           \o <<MarkerLine(1, <<"0">>, count), SubSeq(full, 1, c)>>
                           \o rest, fail))
            /\ dec2 = ObsDecoder(Reader(<<>>, FALSE))
            /\ crashed = FALSE
            /\ hist = <<>>

NextCut == DoNextEpoch

SpecCut == InitCut /\ [][NextCut]_vars

(***************************************************************************)
(* Properties of the satellite line (SpecCut).                             *)
(***************************************************************************)
\* the marker line and the satellite line of the first epoch
CutMarker == dec1.in.lines[Len(CutHeader) + 1]

CutLine == dec1.in.lines[Len(CutHeader) + 2]

\* the satellite count the marker line announces
Announced(marker) == Atoi(TrimSpace(Slice(marker, 32, 35))).val

\* the columns at which the value, the LLI and the SNR of field i end
ValueEnd(i) == 3 + 16 * (i - 1) + 14

LliEnd(i) == ValueEnd(i) + 1

SnrEnd(i) == ValueEnd(i) + 2

BlankFrom3(line) == TrimSpace(SliceFrom(line, 3)) = <<>>

\* the value written in field i of a line: 0 when the field is blank
ValueOf(line, i) ==
    IF TrimSpace(Slice(line, ValueEnd(i) - 14, ValueEnd(i))) = <<>> THEN 0
    ELSE ParseFloat(TrimSpace(Slice(line, ValueEnd(i) - 14, ValueEnd(i)))).val

\* the flag written in the column that ends at col
FlagOf(line, col) == parseFlag(Slice(line, col - 1, col)).val

FirstTypes(i) == {CutTypes[j] : j \in 1..i}

\* the first call decoded the epoch with the one satellite, no error
DecodedOne ==
    /\ hist[1].ret
    /\ hist[1].err = NoErr
    /\ Len(hist[1].epo.ObsList) = 1

\* the satellite has the first i types, the i-th with value v, flags lli and 0
CutAfter(i, lli) ==
    /\ DOMAIN hist[1].epo.ObsList[1].Obss = FirstTypes(i)
    /\ hist[1].epo.ObsList[1].Obss[CutTypes[i]]
           = [Val |-> ValueOf(CutLine, i), LLI |-> lli, SNR |-> 0]

\* C13 as stated: a satellite line that ends right after the value field of
\* type i, or right after its LLI column, decodes without error; type i has
\* the value and the flags that are missing are 0, later types are absent.
C13_CutInField_Stated ==
    \A i \in 1..MaxTok :
        (hist # <<>> /\ Announced(CutMarker) = 1
                    /\ Len(CutLine) \in {ValueEnd(i), LliEnd(i)}) =>
            /\ DecodedOne
            /\ CutAfter(i, IF Len(CutLine) = LliEnd(i)
                           THEN FlagOf(CutLine, LliEnd(i)) ELSE 0)

\* C13 (amended): the same for every such line that is not blank from column
\* 3 on.
C13_CutInField ==
    \A i \in 1..MaxTok :
        (hist # <<>> /\ Announced(CutMarker) = 1
                    /\ Len(CutLine) \in {ValueEnd(i), LliEnd(i)}
                    /\ ~BlankFrom3(CutLine)) =>
            /\ DecodedOne
            /\ CutAfter(i, IF Len(CutLine) = LliEnd(i)
                           THEN FlagOf(CutLine, LliEnd(i)) ELSE 0)

\* a line cut after the LLI of the second of three types: two keys, the LLI
\* kept, the SNR 0
C13_Witness ==
    /\ hist # <<>>
    /\ Announced(CutMarker) = 1
    /\ Len(CutLine) = LliEnd(2)
    /\ DecodedOne
    /\ DOMAIN hist[1].epo.ObsList[1].Obss = {T_C1C, T_L1C}
    /\ hist[1].epo.ObsList[1].Obss[T_L1C].LLI = 1
    /\ hist[1].epo.ObsList[1].Obss[T_L1C].SNR = 0
    /\ hist[1].epo.ObsList[1].Obss[T_L1C].Val > 0

\* C14: a satellite line of k complete fields (1 <= k < number of declared
\* types) that ends right after the SNR column of field k decodes without
\* error, with entries for the first k types.
C14_CutAfterField ==
    \A k \in 1..(MaxTok - 1) :
        (hist # <<>> /\ Announced(CutMarker) = 1 /\ Len(CutLine) = SnrEnd(k)) =>
            /\ DecodedOne
            /\ DOMAIN hist[1].epo.ObsList[1].Obss = FirstTypes(k)

(***************************************************************************)
(* The diff engine: diffEpo, getObsByPRN, diffObs, getDecimal.  What the   *)
(* functions print is modelled as a set of reports (the order of a Go map  *)
(* iteration is not fixed): "diff" a flagged pair of observations, "nokey" *)
(* a type the secondary satellite lacks, "noobs" a satellite the secondary *)
(* epoch lacks.  sat is the satellite's index in the primary's ObsList.    *)
(* A function whose result depends on binary rounding yields [sure, maybe]:*)
(* the reports every run prints and those a run may print.                 *)
(***************************************************************************)
\* gnss.System.Abbr(): the one-letter code of a system
Abbr(sys) == CHOOSE c \in DOMAIN sysPerAbbr : sysPerAbbr[c] = sys

\* the tolerance of diffObs, in thousandths
deltaPhase == 5

checkSNR == FALSE

AbsVal(x) == IF x < 0 THEN 0 - x ELSE x

\* getDecimal on a value in thousandths: f - trunc(f), the sign kept
getDecimal(f) == IF f >= 0 THEN f % 1000 ELSE 0 - ((0 - f) % 1000)

\* the values compared for type k: the fractions for a phase type
compared(k, val) == IF HasPrefix(k, <<"L">>) THEN getDecimal(val) ELSE val

\* math.Abs(val1-val2) > deltaPhase on float64.  A difference of more (less)
\* than the tolerance in thousandths is more (less) in float64 too, the
\* rounding errors being far below a thousandth.  At exactly the tolerance the
\* outcome depends on the binary rounding of the operands: 0.505 - 0.5 is
\* 0.0050000000000000044 > 0.005, while 23.505 - 23.5 < 0.005.
exceeds(val1, val2) ==
    IF AbsVal(val1 - val2) = deltaPhase THEN BOOLEAN
    ELSE {AbsVal(val1 - val2) > deltaPhase}

\* the outcomes of the test that flags the pair o1, o2 of type k
flagged(k, o1, o2) ==
    IF o1.LLI # o2.LLI THEN {TRUE}
    ELSE IF checkSNR /\ o1.SNR # o2.SNR THEN {TRUE}
    ELSE exceeds(compared(k, o1.Val), compared(k, o2.Val))

diffObs(obs1, obs2, sat) ==
    [sure |-> {[kind |-> "diff", sat |-> sat, key |-> k] :
                  k \in {x \in DOMAIN obs1.Obss \cap DOMAIN obs2.Obss :
                            flagged(x, obs1.Obss[x], obs2.Obss[x]) = {TRUE}}}
              \cup {[kind |-> "nokey", sat |-> sat, key |-> k] :
                        k \in DOMAIN obs1.Obss \ DOMAIN obs2.Obss},
     maybe |-> {[kind |-> "diff", sat |-> sat, key |-> k] :
                  k \in {x \in DOMAIN obs1.Obss \cap DOMAIN obs2.Obss :
                            flagged(x, obs1.Obss[x], obs2.Obss[x]) = BOOLEAN}}]

\* the first SatObs of the list with the PRN
getObsByPRN(obslist, prn) ==
    IF \E i \in 1..Len(obslist) : obslist[i].Prn = prn
    THEN [ok |-> TRUE,
          obs |-> obslist[SetMin({i \in 1..Len(obslist) : obslist[i].Prn = prn})]]
    ELSE [ok |-> FALSE, obs |-> [Prn |-> [Sys |-> "", Num |-> 0], Obss |-> EmptyMap]]

\* the satellite's system is one of opts.SatSys
printSys(obs, SatSys) == \E i \in 1..Len(SatSys) : Abbr(obs.Prn.Sys) = SatSys[i]

\* the reports for satellite sat of epo1
diffSat(epo1, epo2, SatSys, sat) ==
    IF ~printSys(epo1.ObsList[sat], SatSys) THEN [sure |-> {}, maybe |-> {}]
    ELSE IF ~getObsByPRN(epo2.ObsList, epo1.ObsList[sat].Prn).ok
    THEN [sure |-> {[kind |-> "noobs", sat |-> sat, key |-> <<>>]}, maybe |-> {}]
    ELSE diffObs(epo1.ObsList[sat],
                 getObsByPRN(epo2.ObsList, epo1.ObsList[sat].Prn).obs, sat)

diffEpo(epochs, SatSys) ==
    [sure |-> UNION {diffSat(epochs.Epo1, epochs.Epo2, SatSys, i).sure :
                        i \in 1..Len(epochs.Epo1.ObsList)},
     maybe |-> UNION {diffSat(epochs.Epo1, epochs.Epo2, SatSys, i).maybe :
                        i \in 1..Len(epochs.Epo1.ObsList)}]

\* the sets of reports a run can print
Outcomes(r) == {r.sure \cup S : S \in SUBSET r.maybe}

(***************************************************************************)
(* SpecDiff: the loop of Diff over two files of one epoch each, the epoch  *)
(* holding 1..MaxSats satellite lines; every iteration calls sync and, on  *)
(* a pair, diffEpo with the system filter of the file's options.           *)
(***************************************************************************)
\* a GPS line: the code value, its LLI, the phase value
GpsSat(num, code, lli, phase) ==
    <<"G">> \o num \o ObsField(code, lli, <<" ">>) \o ObsField(phase, <<" ">>, <<" ">>)

DiffPool ==
    { GpsSat(<<"0", "1">>, <<"0", ".", "5", "0", "0">>, <<" ">>, <<"1", "0", "7", ".", "2", "5", "0">>),
      \* code at the tolerance, phase a cycle and 0.003 apart
      GpsSat(<<"0", "1">>, <<"0", ".", "5", "0", "5">>, <<" ">>, <<"1", "0", "8", ".", "2", "5", "3">>),
      \* phase 0.010 apart
      GpsSat(<<"0", "1">>, <<"0", ".", "5", "0", "0">>, <<" ">>, <<"1", "0", "7", ".", "2", "6", "0">>),
      \* phase at the tolerance, two cycles apart
      GpsSat(<<"0", "1">>, <<"0", ".", "5", "0", "0">>, <<" ">>, <<"1", "0", "9", ".", "2", "5", "5">>),
      \* LLI differs
      GpsSat(<<"0", "1">>, <<"0", ".", "5", "0", "0">>, <<"1">>, <<"1", "0", "7", ".", "2", "5", "0">>),
      \* the code value alone: the line ends after it
      SubSeq(GpsSat(<<"0", "1">>, <<"0", ".", "5", "0", "0">>, <<" ">>, <<"1", "0", "7", ".", "2", "5", "0">>), 1, 17),
      \* another satellite, another system
      GpsSat(<<"0", "2">>, <<"0", ".", "5", "0", "0">>, <<" ">>, <<"1", "0", "7", ".", "2", "5", "0">>),
      <<"R", "0", "2">> \o ObsField(<<"0", ".", "5", "0", "0">>, <<" ">>, <<" ">>) }

DiffEpochs ==
    UNION {{<<MarkerLine(1, <<"0">>, <<Digits[n + 1]>>)>> \o sats : sats \in [1..n -> DiffPool]} :
              n \in 1..MaxSats}

\* opts.SatSys
Filters == {<<"G">>, <<"R">>, <<"G", "R">>}

InitDiff ==
    \E e1 \in DiffEpochs, e2 \in DiffEpochs :
        /\ dec1 = NewObsDecoder(Reader(StdHeader \o e1, FALSE))
        /\ dec2 = NewObsDecoder(Reader(StdHeader \o e2, FALSE))
        /\ crashed = FALSE
        /\ hist = <<>>

\* what a caller can observe after an iteration, and what it printed
DiffCall(before, d, d2, ret, SatSys, reports) ==
    [op |-> "diffEpo", ret |-> ret, from |-> before.pos, to |-> d.pos,
     err |-> Err(d), err2 |-> Err(d2), epo |-> Epoch(d), pair |-> SyncEpoch(d),
     SatSys |-> SatSys, reports |-> reports]

\* for dec.sync(dec2) { syncEpo := dec.SyncEpoch(); diffEpo(syncEpo, f.Opts) }
DoDiff ==
    /\ MayCall
    /\ \E SatSys \in Filters, r \in {sync(dec1, dec2)} :
           \E reports \in (IF r.panic \/ ~r.ret THEN {{}}
                            ELSE Outcomes(diffEpo(SyncEpoch(r.dec), SatSys))) :
               /\ dec1' = r.dec
               /\ dec2' = r.dec2
               /\ crashed' = r.panic
               /\ hist' = IF r.panic THEN hist
                          ELSE Append(hist, DiffCall(dec1, r.dec, r.dec2, r.ret,
                                                     SatSys, reports))

NextDiff == DoDiff

SpecDiff == InitDiff /\ [][NextDiff]_vars

(***************************************************************************)
(* Properties of the diff engine (SpecDiff).                               *)
(***************************************************************************)
\* C17: comparing a pair of identical epochs prints no report, whatever the
\* system filter.
C17_DiffIdempotent ==
    \A i \in Calls :
        (hist[i].ret /\ hist[i].pair.Epo1 = hist[i].pair.Epo2) => hist[i].reports = {}

\* fraction(x) = x - trunc(x) of a value in thousandths
Trunc(x) == IF x >= 0 THEN 1000 * (x \div 1000) ELSE 0 - 1000 * ((0 - x) \div 1000)

Fraction(x) == x - Trunc(x)

\* iteration i printed a "diff" report for type k of the primary's satellite sat
Reported(i, sat, k) == [kind |-> "diff", sat |-> sat, key |-> k] \in hist[i].reports

\* C18: a phase type (code beginning with L) with equal LLI is reported if and
\* only if the fractions differ by more than 0.005; any other type is reported
\* if and only if the LLI differs or the values differ by more than 0.005
\* (values as fixed-point thousandths).
C18_Tolerance ==
    \A i \in Calls :
        hist[i].ret =>
            \A sat \in 1..Len(hist[i].pair.Epo1.ObsList) :
                \E o \in {hist[i].pair.Epo1.ObsList[sat]} :
                \E p \in {getObsByPRN(hist[i].pair.Epo2.ObsList, o.Prn)} :
                    (printSys(o, hist[i].SatSys) /\ p.ok) =>
                        \A k \in DOMAIN o.Obss \cap DOMAIN p.obs.Obss :
                            IF HasPrefix(k, <<"L">>)
                            THEN o.Obss[k].LLI = p.obs.Obss[k].LLI =>
                                    (Reported(i, sat, k) <=>
                                        AbsVal(Fraction(o.Obss[k].Val)
                                                 - Fraction(p.obs.Obss[k].Val)) > 5)
                            ELSE Reported(i, sat, k) <=>
                                    (\/ o.Obss[k].LLI # p.obs.Obss[k].LLI
                                     \/ AbsVal(o.Obss[k].Val - p.obs.Obss[k].Val) > 5)


(***************************************************************************)
(* Stat.  A call yields [panic, err, stat]: whether it died of a run-time  *)
(* panic, the returned error and the returned ObsStat.                     *)
(***************************************************************************)
\* the zero ObsStat of the named result
ZeroStat == [NumEpochs |-> 0, TimeOfFirstObs |-> ZeroTime, TimeOfLastObs |-> ZeroTime]

\* (mutation of statFirst: the start is overwritten by every epoch)
statFirst_Always(stat, numOfEpochs, epo) == [stat EXCEPT !.TimeOfFirstObs = epo.Time]

\* if numOfEpochs == 1 { stat.TimeOfFirstObs = epo.Time }
statFirst(stat, numOfEpochs, epo) ==
    IF numOfEpochs = 1 THEN [stat EXCEPT !.TimeOfFirstObs = epo.Time] ELSE stat

\* the statements after the loop: the decoder's error is returned; otherwise
\* the last epoch's time and the count are stored.  epoPrev is nil when the
\* loop body never ran, and epoPrev.Time is then a nil dereference.
statEnd(d, numOfEpochs, stat, epoPrev) ==
    IF Err(d) # NoErr THEN [panic |-> FALSE, err |-> Err(d), stat |-> stat]
    ELSE IF epoPrev.nil THEN [panic |-> TRUE, err |-> NoErr, stat |-> stat]
    ELSE [panic |-> FALSE, err |-> NoErr,
          stat |-> [stat EXCEPT !.TimeOfLastObs = epoPrev.Time,
                                !.NumEpochs = numOfEpochs]]

\* for dec.NextEpoch() { numOfEpochs++; epo = dec.Epoch(); ...; epoPrev = epo }
\* r is the outcome of the NextEpoch call of the loop condition
RECURSIVE statLoop(_, _, _, _)
statLoop(r, numOfEpochs, stat, epoPrev) ==
    IF r.panic THEN [panic |-> TRUE, err |-> NoErr, stat |-> stat]
    ELSE IF ~r.ret THEN statEnd(r.dec, numOfEpochs, stat, epoPrev)
    ELSE statLoop(NextEpoch(r.dec), numOfEpochs + 1,
                  statFirst(stat, numOfEpochs + 1, Epoch(r.dec)), Epoch(r.dec))

\* Stat on the file with the contents r: the header's error is returned as
\* it is, otherwise the epochs are read
Stat(r) ==
    IF NewObsDecoder(r).err # NoErr
    THEN [panic |-> FALSE, err |-> NewObsDecoder(r).err, stat |-> ZeroStat]
    ELSE statLoop(NextEpoch(NewObsDecoder(r)), 0, ZeroStat, NilEpoch)

(***************************************************************************)
(* SpecStat: a file read by a decoder with NextEpoch, and Stat run once on *)
(* the same file at any moment.  One file announces more satellites than a *)
(* byte can count.                                                         *)
(***************************************************************************)
\* an epoch of 256 satellites, none with an observation
ManyEpoch ==
    <<MarkerLine(1, <<"0">>, <<"2", "5", "6">>)>> \o [i \in 1..256 |-> <<"G", "0", "1">>]

InitStat ==
    \E body \in BodySeqs \cup {ManyEpoch}, fail \in BOOLEAN :
        /\ dec1 = NewObsDecoder(Reader(StdHeader \o body, fail))
        /\ dec2 = ObsDecoder(Reader(<<>>, FALSE))
        /\ crashed = FALSE
        /\ hist = <<>>

\* f.Stat(), once.  Stat reads the file with a decoder of its own: the
\* decoder dec1 is not touched.
DoStat ==
    /\ ~crashed
    /\ \A i \in 1..Len(hist) : hist[i].op # "Stat"
    /\ \E r \in {Stat(dec1.in)} :
           /\ crashed' = r.panic
           /\ hist' = Append(hist, [op |-> "Stat", ret |-> r.err = NoErr,
                                     from |-> dec1.pos, to |-> dec1.pos,
                                     panic |-> r.panic, err |-> r.err,
                                     stat |-> r.stat])
    /\ UNCHANGED <<dec1, dec2>>

NextStat == DoNextEpoch \/ DoStat

SpecStat == InitStat /\ [][NextStat]_vars

(***************************************************************************)
(* Properties of Stat and of the satellite count (SpecStat).               *)
(***************************************************************************)
\* the error a plain reader of the stream ends with (NoErr after a panic)
RECURSIVE EndErr(_)
EndErr(r) ==
    IF r.panic THEN NoErr
    ELSE IF r.ret THEN EndErr(NextEpoch(r.dec))
    ELSE Err(r.dec)

StatCalls == {i \in Calls : hist[i].op = "Stat"}

\* the epochs of the file as a plain reader gets them
FileEpochs == Drain(Start(dec1))

\* C19: for a stream that decodes n >= 1 epochs without error, Stat returns
\* NumEpochs = n, TimeOfFirstObs = the first epoch's time and TimeOfLastObs =
\* the last epoch's time; when the decoder ends with an error (of the header
\* or of an epoch), Stat returns that same error.
C19_Stat ==
    \A i \in StatCalls :
        /\ (Start(dec1).err = NoErr /\ FileEpochs.ok /\ Len(FileEpochs.epochs) >= 1) =>
               /\ ~hist[i].panic
               /\ hist[i].err = NoErr
               /\ hist[i].stat.NumEpochs = Len(FileEpochs.epochs)
               /\ hist[i].stat.TimeOfFirstObs = FileEpochs.epochs[1].Time
               /\ hist[i].stat.TimeOfLastObs =
                      FileEpochs.epochs[Len(FileEpochs.epochs)].Time
        /\ Start(dec1).err # NoErr =>
               (~hist[i].panic /\ hist[i].err = Start(dec1).err)
        /\ (Start(dec1).err = NoErr /\ EndErr(NextEpoch(Start(dec1))) # NoErr) =>
               (~hist[i].panic /\ hist[i].err = EndErr(NextEpoch(Start(dec1))))

\* Stat has run over a stream of two epochs of different times and over
\* nothing else
C19_Witness ==
    \E i \in StatCalls :
        /\ hist[i].err = NoErr
        /\ hist[i].stat.NumEpochs = 2
        /\ hist[i].stat.TimeOfFirstObs # hist[i].stat.TimeOfLastObs
        /\ Len(FileEpochs.epochs) = 2

\* C24: on a stream with a terminated header and no epoch (and no error),
\* Stat completes: it returns NumEpochs = 0 and a nil error and does not
\* panic.
C24_StatOfNoEpoch ==
    \A i \in StatCalls :
        (Start(dec1).err = NoErr /\ FileEpochs.ok /\ FileEpochs.epochs = <<>>) =>
            /\ ~hist[i].panic
            /\ hist[i].err = NoErr
            /\ hist[i].stat.NumEpochs = 0

\* the marker line of the epoch call i returned
MarkerOf(i) ==
    CHOOSE line \in {Consumed(i)[k] : k \in 1..Len(Consumed(i))} : IsMarker(line)

\* C20: the NumSat of a decoded epoch is the integer written in columns
\* [32:35) of its marker line, for every value of 0 to 999.
C20_NumSatAsWritten ==
    \A i \in Calls :
        (hist[i].op = "NextEpoch" /\ hist[i].ret) =>
            hist[i].epo.NumSat = Announced(MarkerOf(i))


(***************************************************************************)
(* SpecEnd: the streams of SpecSync, and the same streams with their last  *)
(* line missing, synchronized by a loop that calls sync until the primary  *)
(* input is used up or the program has died.                               *)
(***************************************************************************)
\* a stream whose last line is missing (its last epoch lacks its satellite)
CutReaders ==
    { Reader(SubSeq(r.lines, 1, Len(r.lines) - 1), FALSE) :
        r \in {x \in SyncReaders : Len(x.lines) > Len(SyncHeader)} }

InitEnd ==
    \E r1 \in SyncReaders \cup CutReaders, r2 \in SyncReaders \cup CutReaders :
        /\ dec1 = NewObsDecoder(r1)
        /\ dec2 = NewObsDecoder(r2)
        /\ crashed = FALSE
        /\ hist = <<>>

SpecEnd == InitEnd /\ [][NextSync]_vars

\* C23: synchronization terminates: whatever the two finite streams, every
\* sync call returns, there are finitely many of them (each uses up a line of
\* the primary input), and when no further call is made the sequence of calls
\* has returned false.
C23_SyncTerminates ==
    /\ Len(hist) <= Len(dec1.in.lines) + 1
    /\ ~MayCall => (hist # <<>> /\ ~Last.ret)

====
